---- MODULE Spec2Model ----
(***************************************************************************)
(* Model of tailwind.config.js: the design token table exported by the     *)
(* module and the plugin hook that registers the three transition          *)
(* utilities.  JavaScript strings are sequences of one-character strings,  *)
(* so that the values can be parsed; JavaScript objects are sequences of   *)
(* key/value entries in declaration order.                                 *)
(***************************************************************************)
EXTENDS Naturals, Integers, Sequences, FiniteSets, TLC

\* Bounds of the model.
MaxLoads == 2
MaxInvocations == 5

\* The registration functions a caller may hand to the plugin hook.
Registrars == {"addUtilitiesA", "addUtilitiesB"}

\* An object property, a string value and an object value.
KV(k, v) == [key |-> k, value |-> v]
JsString(s) == [type |-> "string", str |-> s, entries |-> <<>>]
JsObject(e) == [type |-> "object", str |-> <<>>, entries |-> e]

-----------------------------------------------------------------------------
\* The token table, transcribed from the source.

\* content with only the patterns of the two directories
contentWithoutRootFiles ==
  << <<".", "/", "p", "a", "g", "e", "s", "/", "*", "*", "/", "*", ".", "{", "h", "t", "m", "l", ",", "j", "s", "}">>,
     <<".", "/", "c", "o", "m", "p", "o", "n", "e", "n", "t", "s", "/", "*", "*", "/", "*", ".", "{", "h", "t", "m", "l", ",", "j", "s", "}">> >>

\* content (lines 2-7): the glob patterns the generator scans
content ==
  << <<".", "/", "p", "a", "g", "e", "s", "/", "*", "*", "/", "*", ".", "{", "h", "t", "m", "l", ",", "j", "s", "}">>,
     <<".", "/", "c", "o", "m", "p", "o", "n", "e", "n", "t", "s", "/", "*", "*", "/", "*", ".", "{", "h", "t", "m", "l", ",", "j", "s", "}">>,
     <<".", "/", "i", "n", "d", "e", "x", ".", "h", "t", "m", "l">>,
     <<".", "/", "*", ".", "h", "t", "m", "l">> >>

\* darkMode (line 8)
darkMode == <<"c", "l", "a", "s", "s">>

\* colors.primary: a color family (nested mapping of shades)
primary ==
     \* DEFAULT: '#2563EB'
  << KV(<<"D", "E", "F", "A", "U", "L", "T">>, <<"#", "2", "5", "6", "3", "E", "B">>),
     \* 50: '#EFF6FF'
     KV(<<"5", "0">>, <<"#", "E", "F", "F", "6", "F", "F">>),
     \* 100: '#DBEAFE'
     KV(<<"1", "0", "0">>, <<"#", "D", "B", "E", "A", "F", "E">>),
     \* 200: '#BFDBFE'
     KV(<<"2", "0", "0">>, <<"#", "B", "F", "D", "B", "F", "E">>),
     \* 300: '#93C5FD'
     KV(<<"3", "0", "0">>, <<"#", "9", "3", "C", "5", "F", "D">>),
     \* 400: '#60A5FA'
     KV(<<"4", "0", "0">>, <<"#", "6", "0", "A", "5", "F", "A">>),
     \* 500: '#3B82F6'
     KV(<<"5", "0", "0">>, <<"#", "3", "B", "8", "2", "F", "6">>),
     \* 600: '#2563EB'
     KV(<<"6", "0", "0">>, <<"#", "2", "5", "6", "3", "E", "B">>),
     \* 700: '#1D4ED8'
     KV(<<"7", "0", "0">>, <<"#", "1", "D", "4", "E", "D", "8">>),
     \* 800: '#1E40AF'
     KV(<<"8", "0", "0">>, <<"#", "1", "E", "4", "0", "A", "F">>),
     \* 900: '#1E3A8A'
     KV(<<"9", "0", "0">>, <<"#", "1", "E", "3", "A", "8", "A">>),
     \* foreground: '#FFFFFF'
     KV(<<"f", "o", "r", "e", "g", "r", "o", "u", "n", "d">>, <<"#", "F", "F", "F", "F", "F", "F">>) >>

\* colors.secondary: a color family (nested mapping of shades)
secondary ==
     \* DEFAULT: '#64748B'
  << KV(<<"D", "E", "F", "A", "U", "L", "T">>, <<"#", "6", "4", "7", "4", "8", "B">>),
     \* 50: '#F8FAFC'
     KV(<<"5", "0">>, <<"#", "F", "8", "F", "A", "F", "C">>),
     \* 100: '#F1F5F9'
     KV(<<"1", "0", "0">>, <<"#", "F", "1", "F", "5", "F", "9">>),
     \* 200: '#E2E8F0'
     KV(<<"2", "0", "0">>, <<"#", "E", "2", "E", "8", "F", "0">>),
     \* 300: '#CBD5E1'
     KV(<<"3", "0", "0">>, <<"#", "C", "B", "D", "5", "E", "1">>),
     \* 400: '#94A3B8'
     KV(<<"4", "0", "0">>, <<"#", "9", "4", "A", "3", "B", "8">>),
     \* 500: '#64748B'
     KV(<<"5", "0", "0">>, <<"#", "6", "4", "7", "4", "8", "B">>),
     \* 600: '#475569'
     KV(<<"6", "0", "0">>, <<"#", "4", "7", "5", "5", "6", "9">>),
     \* 700: '#334155'
     KV(<<"7", "0", "0">>, <<"#", "3", "3", "4", "1", "5", "5">>),
     \* 800: '#1E293B'
     KV(<<"8", "0", "0">>, <<"#", "1", "E", "2", "9", "3", "B">>),
     \* 900: '#0F172A'
     KV(<<"9", "0", "0">>, <<"#", "0", "F", "1", "7", "2", "A">>),
     \* foreground: '#FFFFFF'
     KV(<<"f", "o", "r", "e", "g", "r", "o", "u", "n", "d">>, <<"#", "F", "F", "F", "F", "F", "F">>) >>

\* colors.accent: a color family (nested mapping of shades)
accent ==
     \* DEFAULT: '#F59E0B'
  << KV(<<"D", "E", "F", "A", "U", "L", "T">>, <<"#", "F", "5", "9", "E", "0", "B">>),
     \* 50: '#FFFBEB'
     KV(<<"5", "0">>, <<"#", "F", "F", "F", "B", "E", "B">>),
     \* 100: '#FEF3C7'
     KV(<<"1", "0", "0">>, <<"#", "F", "E", "F", "3", "C", "7">>),
     \* 200: '#FDE68A'
     KV(<<"2", "0", "0">>, <<"#", "F", "D", "E", "6", "8", "A">>),
     \* 300: '#FCD34D'
     KV(<<"3", "0", "0">>, <<"#", "F", "C", "D", "3", "4", "D">>),
     \* 400: '#FBBF24'
     KV(<<"4", "0", "0">>, <<"#", "F", "B", "B", "F", "2", "4">>),
     \* 500: '#F59E0B'
     KV(<<"5", "0", "0">>, <<"#", "F", "5", "9", "E", "0", "B">>),
     \* 600: '#D97706'
     KV(<<"6", "0", "0">>, <<"#", "D", "9", "7", "7", "0", "6">>),
     \* 700: '#B45309'
     KV(<<"7", "0", "0">>, <<"#", "B", "4", "5", "3", "0", "9">>),
     \* 800: '#92400E'
     KV(<<"8", "0", "0">>, <<"#", "9", "2", "4", "0", "0", "E">>),
     \* 900: '#78350F'
     KV(<<"9", "0", "0">>, <<"#", "7", "8", "3", "5", "0", "F">>),
     \* foreground: '#1F2937'
     KV(<<"f", "o", "r", "e", "g", "r", "o", "u", "n", "d">>, <<"#", "1", "F", "2", "9", "3", "7">>) >>

\* colors.background: a color family (nested mapping of shades)
background ==
     \* DEFAULT: '#FAFAFA'
  << KV(<<"D", "E", "F", "A", "U", "L", "T">>, <<"#", "F", "A", "F", "A", "F", "A">>),
     \* foreground: '#1F2937'
     KV(<<"f", "o", "r", "e", "g", "r", "o", "u", "n", "d">>, <<"#", "1", "F", "2", "9", "3", "7">>) >>

\* colors.surface: a color family (nested mapping of shades)
surface ==
     \* DEFAULT: '#FFFFFF'
  << KV(<<"D", "E", "F", "A", "U", "L", "T">>, <<"#", "F", "F", "F", "F", "F", "F">>),
     \* foreground: '#374151'
     KV(<<"f", "o", "r", "e", "g", "r", "o", "u", "n", "d">>, <<"#", "3", "7", "4", "1", "5", "1">>),
     \* hover: '#F9FAFB'
     KV(<<"h", "o", "v", "e", "r">>, <<"#", "F", "9", "F", "A", "F", "B">>),
     \* active: '#F3F4F6'
     KV(<<"a", "c", "t", "i", "v", "e">>, <<"#", "F", "3", "F", "4", "F", "6">>) >>

\* colors.success: a color family (nested mapping of shades)
success ==
     \* DEFAULT: '#059669'
  << KV(<<"D", "E", "F", "A", "U", "L", "T">>, <<"#", "0", "5", "9", "6", "6", "9">>),
     \* 50: '#ECFDF5'
     KV(<<"5", "0">>, <<"#", "E", "C", "F", "D", "F", "5">>),
     \* 100: '#D1FAE5'
     KV(<<"1", "0", "0">>, <<"#", "D", "1", "F", "A", "E", "5">>),
     \* 200: '#A7F3D0'
     KV(<<"2", "0", "0">>, <<"#", "A", "7", "F", "3", "D", "0">>),
     \* 300: '#6EE7B7'
     KV(<<"3", "0", "0">>, <<"#", "6", "E", "E", "7", "B", "7">>),
     \* 400: '#34D399'
     KV(<<"4", "0", "0">>, <<"#", "3", "4", "D", "3", "9", "9">>),
     \* 500: '#10B981'
     KV(<<"5", "0", "0">>, <<"#", "1", "0", "B", "9", "8", "1">>),
     \* 600: '#059669'
     KV(<<"6", "0", "0">>, <<"#", "0", "5", "9", "6", "6", "9">>),
     \* 700: '#047857'
     KV(<<"7", "0", "0">>, <<"#", "0", "4", "7", "8", "5", "7">>),
     \* 800: '#065F46'
     KV(<<"8", "0", "0">>, <<"#", "0", "6", "5", "F", "4", "6">>),
     \* 900: '#064E3B'
     KV(<<"9", "0", "0">>, <<"#", "0", "6", "4", "E", "3", "B">>),
     \* foreground: '#FFFFFF'
     KV(<<"f", "o", "r", "e", "g", "r", "o", "u", "n", "d">>, <<"#", "F", "F", "F", "F", "F", "F">>) >>

\* colors.warning: a color family (nested mapping of shades)
warning ==
     \* DEFAULT: '#D97706'
  << KV(<<"D", "E", "F", "A", "U", "L", "T">>, <<"#", "D", "9", "7", "7", "0", "6">>),
     \* 50: '#FFFBEB'
     KV(<<"5", "0">>, <<"#", "F", "F", "F", "B", "E", "B">>),
     \* 100: '#FEF3C7'
     KV(<<"1", "0", "0">>, <<"#", "F", "E", "F", "3", "C", "7">>),
     \* 200: '#FDE68A'
     KV(<<"2", "0", "0">>, <<"#", "F", "D", "E", "6", "8", "A">>),
     \* 300: '#FCD34D'
     KV(<<"3", "0", "0">>, <<"#", "F", "C", "D", "3", "4", "D">>),
     \* 400: '#FBBF24'
     KV(<<"4", "0", "0">>, <<"#", "F", "B", "B", "F", "2", "4">>),
     \* 500: '#F59E0B'
     KV(<<"5", "0", "0">>, <<"#", "F", "5", "9", "E", "0", "B">>),
     \* 600: '#D97706'
     KV(<<"6", "0", "0">>, <<"#", "D", "9", "7", "7", "0", "6">>),
     \* 700: '#B45309'
     KV(<<"7", "0", "0">>, <<"#", "B", "4", "5", "3", "0", "9">>),
     \* 800: '#92400E'
     KV(<<"8", "0", "0">>, <<"#", "9", "2", "4", "0", "0", "E">>),
     \* 900: '#78350F'
     KV(<<"9", "0", "0">>, <<"#", "7", "8", "3", "5", "0", "F">>),
     \* foreground: '#FFFFFF'
     KV(<<"f", "o", "r", "e", "g", "r", "o", "u", "n", "d">>, <<"#", "F", "F", "F", "F", "F", "F">>) >>

\* colors.error with a hexadecimal digit of shade 900 lost
errorTruncatedShade ==
     \* DEFAULT: '#DC2626'
  << KV(<<"D", "E", "F", "A", "U", "L", "T">>, <<"#", "D", "C", "2", "6", "2", "6">>),
     \* 50: '#FEF2F2'
     KV(<<"5", "0">>, <<"#", "F", "E", "F", "2", "F", "2">>),
     \* 100: '#FEE2E2'
     KV(<<"1", "0", "0">>, <<"#", "F", "E", "E", "2", "E", "2">>),
     \* 200: '#FECACA'
     KV(<<"2", "0", "0">>, <<"#", "F", "E", "C", "A", "C", "A">>),
     \* 300: '#FCA5A5'
     KV(<<"3", "0", "0">>, <<"#", "F", "C", "A", "5", "A", "5">>),
     \* 400: '#F87171'
     KV(<<"4", "0", "0">>, <<"#", "F", "8", "7", "1", "7", "1">>),
     \* 500: '#EF4444'
     KV(<<"5", "0", "0">>, <<"#", "E", "F", "4", "4", "4", "4">>),
     \* 600: '#DC2626'
     KV(<<"6", "0", "0">>, <<"#", "D", "C", "2", "6", "2", "6">>),
     \* 700: '#B91C1C'
     KV(<<"7", "0", "0">>, <<"#", "B", "9", "1", "C", "1", "C">>),
     \* 800: '#991B1B'
     KV(<<"8", "0", "0">>, <<"#", "9", "9", "1", "B", "1", "B">>),
     \* 900: '#7F1D1'
     KV(<<"9", "0", "0">>, <<"#", "7", "F", "1", "D", "1">>),
     \* foreground: '#FFFFFF'
     KV(<<"f", "o", "r", "e", "g", "r", "o", "u", "n", "d">>, <<"#", "F", "F", "F", "F", "F", "F">>) >>

\* colors.error: a color family (nested mapping of shades)
error ==
     \* DEFAULT: '#DC2626'
  << KV(<<"D", "E", "F", "A", "U", "L", "T">>, <<"#", "D", "C", "2", "6", "2", "6">>),
     \* 50: '#FEF2F2'
     KV(<<"5", "0">>, <<"#", "F", "E", "F", "2", "F", "2">>),
     \* 100: '#FEE2E2'
     KV(<<"1", "0", "0">>, <<"#", "F", "E", "E", "2", "E", "2">>),
     \* 200: '#FECACA'
     KV(<<"2", "0", "0">>, <<"#", "F", "E", "C", "A", "C", "A">>),
     \* 300: '#FCA5A5'
     KV(<<"3", "0", "0">>, <<"#", "F", "C", "A", "5", "A", "5">>),
     \* 400: '#F87171'
     KV(<<"4", "0", "0">>, <<"#", "F", "8", "7", "1", "7", "1">>),
     \* 500: '#EF4444'
     KV(<<"5", "0", "0">>, <<"#", "E", "F", "4", "4", "4", "4">>),
     \* 600: '#DC2626'
     KV(<<"6", "0", "0">>, <<"#", "D", "C", "2", "6", "2", "6">>),
     \* 700: '#B91C1C'
     KV(<<"7", "0", "0">>, <<"#", "B", "9", "1", "C", "1", "C">>),
     \* 800: '#991B1B'
     KV(<<"8", "0", "0">>, <<"#", "9", "9", "1", "B", "1", "B">>),
     \* 900: '#7F1D1D'
     KV(<<"9", "0", "0">>, <<"#", "7", "F", "1", "D", "1", "D">>),
     \* foreground: '#FFFFFF'
     KV(<<"f", "o", "r", "e", "g", "r", "o", "u", "n", "d">>, <<"#", "F", "F", "F", "F", "F", "F">>) >>

\* colors.border: a color family (nested mapping of shades)
border ==
     \* DEFAULT: 'rgba(0, 0, 0, 0.08)'
  << KV(<<"D", "E", "F", "A", "U", "L", "T">>, <<"r", "g", "b", "a", "(", "0", ",", " ", "0", ",", " ", "0", ",", " ", "0", ".", "0", "8", ")">>),
     \* light: 'rgba(0, 0, 0, 0.04)'
     KV(<<"l", "i", "g", "h", "t">>, <<"r", "g", "b", "a", "(", "0", ",", " ", "0", ",", " ", "0", ",", " ", "0", ".", "0", "4", ")">>),
     \* strong: 'rgba(0, 0, 0, 0.12)'
     KV(<<"s", "t", "r", "o", "n", "g">>, <<"r", "g", "b", "a", "(", "0", ",", " ", "0", ",", " ", "0", ",", " ", "0", ".", "1", "2", ")">>) >>

\* theme.extend.colors (lines 11-125): families are objects, text colors are flat strings
colors ==
  << KV(<<"p", "r", "i", "m", "a", "r", "y">>, JsObject(primary)),
     KV(<<"s", "e", "c", "o", "n", "d", "a", "r", "y">>, JsObject(secondary)),
     KV(<<"a", "c", "c", "e", "n", "t">>, JsObject(accent)),
     KV(<<"b", "a", "c", "k", "g", "r", "o", "u", "n", "d">>, JsObject(background)),
     KV(<<"s", "u", "r", "f", "a", "c", "e">>, JsObject(surface)),
     KV(<<"t", "e", "x", "t", "-", "p", "r", "i", "m", "a", "r", "y">>, JsString(<<"#", "1", "F", "2", "9", "3", "7">>)),
     KV(<<"t", "e", "x", "t", "-", "s", "e", "c", "o", "n", "d", "a", "r", "y">>, JsString(<<"#", "6", "B", "7", "2", "8", "0">>)),
     KV(<<"t", "e", "x", "t", "-", "t", "e", "r", "t", "i", "a", "r", "y">>, JsString(<<"#", "9", "C", "A", "3", "A", "F">>)),
     KV(<<"t", "e", "x", "t", "-", "d", "i", "s", "a", "b", "l", "e", "d">>, JsString(<<"#", "D", "1", "D", "5", "D", "B">>)),
     KV(<<"s", "u", "c", "c", "e", "s", "s">>, JsObject(success)),
     KV(<<"w", "a", "r", "n", "i", "n", "g">>, JsObject(warning)),
     KV(<<"e", "r", "r", "o", "r">>, JsObject(error)),
     KV(<<"b", "o", "r", "d", "e", "r">>, JsObject(border)) >>

\* fontFamily with the generic fallback of mono left out
fontFamilyNoFallback ==
     \* heading: ['Inter', 'sans-serif']
  << KV(<<"h", "e", "a", "d", "i", "n", "g">>, << <<"I", "n", "t", "e", "r">>, <<"s", "a", "n", "s", "-", "s", "e", "r", "i", "f">> >>),
     \* body: ['Source Sans Pro', 'sans-serif']
     KV(<<"b", "o", "d", "y">>, << <<"S", "o", "u", "r", "c", "e", " ", "S", "a", "n", "s", " ", "P", "r", "o">>, <<"s", "a", "n", "s", "-", "s", "e", "r", "i", "f">> >>),
     \* caption: ['IBM Plex Sans', 'sans-serif']
     KV(<<"c", "a", "p", "t", "i", "o", "n">>, << <<"I", "B", "M", " ", "P", "l", "e", "x", " ", "S", "a", "n", "s">>, <<"s", "a", "n", "s", "-", "s", "e", "r", "i", "f">> >>),
     \* mono: ['JetBrains Mono']
     KV(<<"m", "o", "n", "o">>, << <<"J", "e", "t", "B", "r", "a", "i", "n", "s", " ", "M", "o", "n", "o">> >>) >>

\* theme.extend.fontFamily (lines 126-131): ordered fallback lists
fontFamily ==
     \* heading: ['Inter', 'sans-serif']
  << KV(<<"h", "e", "a", "d", "i", "n", "g">>, << <<"I", "n", "t", "e", "r">>, <<"s", "a", "n", "s", "-", "s", "e", "r", "i", "f">> >>),
     \* body: ['Source Sans Pro', 'sans-serif']
     KV(<<"b", "o", "d", "y">>, << <<"S", "o", "u", "r", "c", "e", " ", "S", "a", "n", "s", " ", "P", "r", "o">>, <<"s", "a", "n", "s", "-", "s", "e", "r", "i", "f">> >>),
     \* caption: ['IBM Plex Sans', 'sans-serif']
     KV(<<"c", "a", "p", "t", "i", "o", "n">>, << <<"I", "B", "M", " ", "P", "l", "e", "x", " ", "S", "a", "n", "s">>, <<"s", "a", "n", "s", "-", "s", "e", "r", "i", "f">> >>),
     \* mono: ['JetBrains Mono', 'monospace']
     KV(<<"m", "o", "n", "o">>, << <<"J", "e", "t", "B", "r", "a", "i", "n", "s", " ", "M", "o", "n", "o">>, <<"m", "o", "n", "o", "s", "p", "a", "c", "e">> >>) >>

\* fontSize with the lineHeight of 'base' given as a length
fontSizeLineHeightWithUnit ==
     \* xs: ['0.875rem', {'lineHeight': '1.4'}]
  << KV(<<"x", "s">>, << <<"0", ".", "8", "7", "5", "r", "e", "m">>, << KV(<<"l", "i", "n", "e", "H", "e", "i", "g", "h", "t">>, <<"1", ".", "4">>) >> >>),
     \* sm: ['0.9375rem', {'lineHeight': '1.6'}]
     KV(<<"s", "m">>, << <<"0", ".", "9", "3", "7", "5", "r", "e", "m">>, << KV(<<"l", "i", "n", "e", "H", "e", "i", "g", "h", "t">>, <<"1", ".", "6">>) >> >>),
     \* base: ['1rem', {'lineHeight': '1.6rem'}]
     KV(<<"b", "a", "s", "e">>, << <<"1", "r", "e", "m">>, << KV(<<"l", "i", "n", "e", "H", "e", "i", "g", "h", "t">>, <<"1", ".", "6", "r", "e", "m">>) >> >>),
     \* lg: ['1.125rem', {'lineHeight': '1.5'}]
     KV(<<"l", "g">>, << <<"1", ".", "1", "2", "5", "r", "e", "m">>, << KV(<<"l", "i", "n", "e", "H", "e", "i", "g", "h", "t">>, <<"1", ".", "5">>) >> >>),
     \* xl: ['1.25rem', {'lineHeight': '1.4'}]
     KV(<<"x", "l">>, << <<"1", ".", "2", "5", "r", "e", "m">>, << KV(<<"l", "i", "n", "e", "H", "e", "i", "g", "h", "t">>, <<"1", ".", "4">>) >> >>),
     \* 2xl: ['1.5rem', {'lineHeight': '1.3'}]
     KV(<<"2", "x", "l">>, << <<"1", ".", "5", "r", "e", "m">>, << KV(<<"l", "i", "n", "e", "H", "e", "i", "g", "h", "t">>, <<"1", ".", "3">>) >> >>),
     \* 3xl: ['1.875rem', {'lineHeight': '1.25'}]
     KV(<<"3", "x", "l">>, << <<"1", ".", "8", "7", "5", "r", "e", "m">>, << KV(<<"l", "i", "n", "e", "H", "e", "i", "g", "h", "t">>, <<"1", ".", "2", "5">>) >> >>),
     \* 4xl: ['2.25rem', {'lineHeight': '1.2'}]
     KV(<<"4", "x", "l">>, << <<"2", ".", "2", "5", "r", "e", "m">>, << KV(<<"l", "i", "n", "e", "H", "e", "i", "g", "h", "t">>, <<"1", ".", "2">>) >> >>) >>

\* theme.extend.fontSize (lines 132-141): [size, {lineHeight}] arrays
fontSize ==
     \* xs: ['0.875rem', {'lineHeight': '1.4'}]
  << KV(<<"x", "s">>, << <<"0", ".", "8", "7", "5", "r", "e", "m">>, << KV(<<"l", "i", "n", "e", "H", "e", "i", "g", "h", "t">>, <<"1", ".", "4">>) >> >>),
     \* sm: ['0.9375rem', {'lineHeight': '1.6'}]
     KV(<<"s", "m">>, << <<"0", ".", "9", "3", "7", "5", "r", "e", "m">>, << KV(<<"l", "i", "n", "e", "H", "e", "i", "g", "h", "t">>, <<"1", ".", "6">>) >> >>),
     \* base: ['1rem', {'lineHeight': '1.6'}]
     KV(<<"b", "a", "s", "e">>, << <<"1", "r", "e", "m">>, << KV(<<"l", "i", "n", "e", "H", "e", "i", "g", "h", "t">>, <<"1", ".", "6">>) >> >>),
     \* lg: ['1.125rem', {'lineHeight': '1.5'}]
     KV(<<"l", "g">>, << <<"1", ".", "1", "2", "5", "r", "e", "m">>, << KV(<<"l", "i", "n", "e", "H", "e", "i", "g", "h", "t">>, <<"1", ".", "5">>) >> >>),
     \* xl: ['1.25rem', {'lineHeight': '1.4'}]
     KV(<<"x", "l">>, << <<"1", ".", "2", "5", "r", "e", "m">>, << KV(<<"l", "i", "n", "e", "H", "e", "i", "g", "h", "t">>, <<"1", ".", "4">>) >> >>),
     \* 2xl: ['1.5rem', {'lineHeight': '1.3'}]
     KV(<<"2", "x", "l">>, << <<"1", ".", "5", "r", "e", "m">>, << KV(<<"l", "i", "n", "e", "H", "e", "i", "g", "h", "t">>, <<"1", ".", "3">>) >> >>),
     \* 3xl: ['1.875rem', {'lineHeight': '1.25'}]
     KV(<<"3", "x", "l">>, << <<"1", ".", "8", "7", "5", "r", "e", "m">>, << KV(<<"l", "i", "n", "e", "H", "e", "i", "g", "h", "t">>, <<"1", ".", "2", "5">>) >> >>),
     \* 4xl: ['2.25rem', {'lineHeight': '1.2'}]
     KV(<<"4", "x", "l">>, << <<"2", ".", "2", "5", "r", "e", "m">>, << KV(<<"l", "i", "n", "e", "H", "e", "i", "g", "h", "t">>, <<"1", ".", "2">>) >> >>) >>

\* spacing with the length of key '6' set to that of key '4'
spacingNotIncreasing ==
     \* 1: '0.5rem'
  << KV(<<"1">>, <<"0", ".", "5", "r", "e", "m">>),
     \* 2: '1rem'
     KV(<<"2">>, <<"1", "r", "e", "m">>),
     \* 3: '1.5rem'
     KV(<<"3">>, <<"1", ".", "5", "r", "e", "m">>),
     \* 4: '2rem'
     KV(<<"4">>, <<"2", "r", "e", "m">>),
     \* 6: '2rem'
     KV(<<"6">>, <<"2", "r", "e", "m">>),
     \* 8: '4rem'
     KV(<<"8">>, <<"4", "r", "e", "m">>),
     \* 12: '6rem'
     KV(<<"1", "2">>, <<"6", "r", "e", "m">>) >>

\* theme.extend.spacing
spacing ==
     \* 1: '0.5rem'
  << KV(<<"1">>, <<"0", ".", "5", "r", "e", "m">>),
     \* 2: '1rem'
     KV(<<"2">>, <<"1", "r", "e", "m">>),
     \* 3: '1.5rem'
     KV(<<"3">>, <<"1", ".", "5", "r", "e", "m">>),
     \* 4: '2rem'
     KV(<<"4">>, <<"2", "r", "e", "m">>),
     \* 6: '3rem'
     KV(<<"6">>, <<"3", "r", "e", "m">>),
     \* 8: '4rem'
     KV(<<"8">>, <<"4", "r", "e", "m">>),
     \* 12: '6rem'
     KV(<<"1", "2">>, <<"6", "r", "e", "m">>) >>

\* theme.extend.borderRadius
borderRadius ==
     \* sm: '0.375rem'
  << KV(<<"s", "m">>, <<"0", ".", "3", "7", "5", "r", "e", "m">>),
     \* base: '0.75rem'
     KV(<<"b", "a", "s", "e">>, <<"0", ".", "7", "5", "r", "e", "m">>),
     \* md: '1.125rem'
     KV(<<"m", "d">>, <<"1", ".", "1", "2", "5", "r", "e", "m">>),
     \* lg: '1.5rem'
     KV(<<"l", "g">>, <<"1", ".", "5", "r", "e", "m">>),
     \* xl: '0.75rem'
     KV(<<"x", "l">>, <<"0", ".", "7", "5", "r", "e", "m">>) >>

\* theme.extend.boxShadow
boxShadow ==
     \* sm: '0 2px 4px rgba(0, 0, 0, 0.08)'
  << KV(<<"s", "m">>, <<"0", " ", "2", "p", "x", " ", "4", "p", "x", " ", "r", "g", "b", "a", "(", "0", ",", " ", "0", ",", " ", "0", ",", " ", "0", ".", "0", "8", ")">>),
     \* base: '0 4px 8px rgba(0, 0, 0, 0.1)'
     KV(<<"b", "a", "s", "e">>, <<"0", " ", "4", "p", "x", " ", "8", "p", "x", " ", "r", "g", "b", "a", "(", "0", ",", " ", "0", ",", " ", "0", ",", " ", "0", ".", "1", ")">>),
     \* md: '0 6px 12px rgba(0, 0, 0, 0.12)'
     KV(<<"m", "d">>, <<"0", " ", "6", "p", "x", " ", "1", "2", "p", "x", " ", "r", "g", "b", "a", "(", "0", ",", " ", "0", ",", " ", "0", ",", " ", "0", ".", "1", "2", ")">>),
     \* lg: '0 12px 24px rgba(0, 0, 0, 0.15)'
     KV(<<"l", "g">>, <<"0", " ", "1", "2", "p", "x", " ", "2", "4", "p", "x", " ", "r", "g", "b", "a", "(", "0", ",", " ", "0", ",", " ", "0", ",", " ", "0", ".", "1", "5", ")">>),
     \* xl: '0 20px 40px -8px rgba(0, 0, 0, 0.15)'
     KV(<<"x", "l">>, <<"0", " ", "2", "0", "p", "x", " ", "4", "0", "p", "x", " ", "-", "8", "p", "x", " ", "r", "g", "b", "a", "(", "0", ",", " ", "0", ",", " ", "0", ",", " ", "0", ".", "1", "5", ")">>) >>

\* theme.extend.transitionDuration
transitionDuration ==
     \* 250: '250ms'
  << KV(<<"2", "5", "0">>, <<"2", "5", "0", "m", "s">>),
     \* 350: '350ms'
     KV(<<"3", "5", "0">>, <<"3", "5", "0", "m", "s">>) >>

\* theme.extend.transitionTimingFunction
transitionTimingFunction ==
     \* out: 'cubic-bezier(0.4, 0, 0.2, 1)'
  << KV(<<"o", "u", "t">>, <<"c", "u", "b", "i", "c", "-", "b", "e", "z", "i", "e", "r", "(", "0", ".", "4", ",", " ", "0", ",", " ", "0", ".", "2", ",", " ", "1", ")">>) >>

\* zIndex with the modal layer at the value of the navigation layer
zIndexModalBelowNavigation ==
     \* base: '0'
  << KV(<<"b", "a", "s", "e">>, <<"0">>),
     \* card: '1'
     KV(<<"c", "a", "r", "d">>, <<"1">>),
     \* dropdown: '50'
     KV(<<"d", "r", "o", "p", "d", "o", "w", "n">>, <<"5", "0">>),
     \* navigation: '100'
     KV(<<"n", "a", "v", "i", "g", "a", "t", "i", "o", "n">>, <<"1", "0", "0">>),
     \* modal: '100'
     KV(<<"m", "o", "d", "a", "l">>, <<"1", "0", "0">>),
     \* toast: '300'
     KV(<<"t", "o", "a", "s", "t">>, <<"3", "0", "0">>) >>

\* theme.extend.zIndex
zIndex ==
     \* base: '0'
  << KV(<<"b", "a", "s", "e">>, <<"0">>),
     \* card: '1'
     KV(<<"c", "a", "r", "d">>, <<"1">>),
     \* dropdown: '50'
     KV(<<"d", "r", "o", "p", "d", "o", "w", "n">>, <<"5", "0">>),
     \* navigation: '100'
     KV(<<"n", "a", "v", "i", "g", "a", "t", "i", "o", "n">>, <<"1", "0", "0">>),
     \* modal: '200'
     KV(<<"m", "o", "d", "a", "l">>, <<"2", "0", "0">>),
     \* toast: '300'
     KV(<<"t", "o", "a", "s", "t">>, <<"3", "0", "0">>) >>

\* theme.extend.ringWidth
ringWidth ==
     \* 3: '3px'
  << KV(<<"3">>, <<"3", "p", "x">>) >>

\* theme.extend.ringOffsetWidth
ringOffsetWidth ==
     \* 2: '2px'
  << KV(<<"2">>, <<"2", "p", "x">>) >>

\* theme.extend.minWidth
minWidth ==
     \* 44: '44px'
  << KV(<<"4", "4">>, <<"4", "4", "p", "x">>) >>

\* theme.extend.minHeight
minHeight ==
     \* 44: '44px'
  << KV(<<"4", "4">>, <<"4", "4", "p", "x">>) >>

\* theme.extend.maxWidth
maxWidth ==
     \* measure: '70ch'
  << KV(<<"m", "e", "a", "s", "u", "r", "e">>, <<"7", "0", "c", "h">>) >>

\* theme.extend.letterSpacing
letterSpacing ==
     \* caption: '0.025em'
  << KV(<<"c", "a", "p", "t", "i", "o", "n">>, <<"0", ".", "0", "2", "5", "e", "m">>) >>

\* newUtilities with .transition-slow at 300ms, a duration the scale does not declare
newUtilitiesSlowOffScale ==
     \* .transition-base: {'transition': 'all 250ms cubic-bezier(0.4, 0, 0.2, 1)'}
  << KV(<<".", "t", "r", "a", "n", "s", "i", "t", "i", "o", "n", "-", "b", "a", "s", "e">>, << KV(<<"t", "r", "a", "n", "s", "i", "t", "i", "o", "n">>, <<"a", "l", "l", " ", "2", "5", "0", "m", "s", " ", "c", "u", "b", "i", "c", "-", "b", "e", "z", "i", "e", "r", "(", "0", ".", "4", ",", " ", "0", ",", " ", "0", ".", "2", ",", " ", "1", ")">>) >>),
     \* .transition-fast: {'transition': 'all 150ms cubic-bezier(0.4, 0, 0.2, 1)'}
     KV(<<".", "t", "r", "a", "n", "s", "i", "t", "i", "o", "n", "-", "f", "a", "s", "t">>, << KV(<<"t", "r", "a", "n", "s", "i", "t", "i", "o", "n">>, <<"a", "l", "l", " ", "1", "5", "0", "m", "s", " ", "c", "u", "b", "i", "c", "-", "b", "e", "z", "i", "e", "r", "(", "0", ".", "4", ",", " ", "0", ",", " ", "0", ".", "2", ",", " ", "1", ")">>) >>),
     \* .transition-slow: {'transition': 'all 300ms cubic-bezier(0.4, 0, 0.2, 1)'}
     KV(<<".", "t", "r", "a", "n", "s", "i", "t", "i", "o", "n", "-", "s", "l", "o", "w">>, << KV(<<"t", "r", "a", "n", "s", "i", "t", "i", "o", "n">>, <<"a", "l", "l", " ", "3", "0", "0", "m", "s", " ", "c", "u", "b", "i", "c", "-", "b", "e", "z", "i", "e", "r", "(", "0", ".", "4", ",", " ", "0", ",", " ", "0", ".", "2", ",", " ", "1", ")">>) >>) >>

\* const newUtilities (lines 202-212), built on every invocation of the hook
newUtilities ==
     \* .transition-base: {'transition': 'all 250ms cubic-bezier(0.4, 0, 0.2, 1)'}
  << KV(<<".", "t", "r", "a", "n", "s", "i", "t", "i", "o", "n", "-", "b", "a", "s", "e">>, << KV(<<"t", "r", "a", "n", "s", "i", "t", "i", "o", "n">>, <<"a", "l", "l", " ", "2", "5", "0", "m", "s", " ", "c", "u", "b", "i", "c", "-", "b", "e", "z", "i", "e", "r", "(", "0", ".", "4", ",", " ", "0", ",", " ", "0", ".", "2", ",", " ", "1", ")">>) >>),
     \* .transition-fast: {'transition': 'all 150ms cubic-bezier(0.4, 0, 0.2, 1)'}
     KV(<<".", "t", "r", "a", "n", "s", "i", "t", "i", "o", "n", "-", "f", "a", "s", "t">>, << KV(<<"t", "r", "a", "n", "s", "i", "t", "i", "o", "n">>, <<"a", "l", "l", " ", "1", "5", "0", "m", "s", " ", "c", "u", "b", "i", "c", "-", "b", "e", "z", "i", "e", "r", "(", "0", ".", "4", ",", " ", "0", ",", " ", "0", ".", "2", ",", " ", "1", ")">>) >>),
     \* .transition-slow: {'transition': 'all 350ms cubic-bezier(0.4, 0, 0.2, 1)'}
     KV(<<".", "t", "r", "a", "n", "s", "i", "t", "i", "o", "n", "-", "s", "l", "o", "w">>, << KV(<<"t", "r", "a", "n", "s", "i", "t", "i", "o", "n">>, <<"a", "l", "l", " ", "3", "5", "0", "m", "s", " ", "c", "u", "b", "i", "c", "-", "b", "e", "z", "i", "e", "r", "(", "0", ".", "4", ",", " ", "0", ",", " ", "0", ".", "2", ",", " ", "1", ")">>) >>) >>

\* theme.extend (lines 10-198)
extend ==
  [ colors |-> colors,
    fontFamily |-> fontFamily,
    fontSize |-> fontSize,
    spacing |-> spacing,
    borderRadius |-> borderRadius,
    boxShadow |-> boxShadow,
    transitionDuration |-> transitionDuration,
    transitionTimingFunction |-> transitionTimingFunction,
    zIndex |-> zIndex,
    ringWidth |-> ringWidth,
    ringOffsetWidth |-> ringOffsetWidth,
    minWidth |-> minWidth,
    minHeight |-> minHeight,
    maxWidth |-> maxWidth,
    letterSpacing |-> letterSpacing ]

\* plugins (lines 200-215): one function, named here by its position
plugins == << "plugins[0]" >>

\* module.exports (lines 1-216): the value one evaluation of the file yields
ModuleExports ==
  [ content |-> content,
    darkMode |-> darkMode,
    theme |-> [extend |-> extend],
    plugins |-> plugins ]

-----------------------------------------------------------------------------
\* The state: the exported table as its consumer holds it, the number of
\* evaluations of the file, the number of invocations of the plugin hook, and
\* the log of the calls made to the registration functions.
VARIABLES config, loads, invocations, registered

vars == <<config, loads, invocations, registered>>

Init ==
  /\ config = ModuleExports
  /\ loads = 1
  /\ invocations = 0
  /\ registered = <<>>

\* Evaluating the file (again): the object literal is built anew.
Load ==
  /\ loads < MaxLoads
  /\ config' = ModuleExports
  /\ loads' = loads + 1
  /\ UNCHANGED <<invocations, registered>>

\* The caller's registration function: it records the call it receives.
addUtilities(log, fn, arg) == Append(log, [fn |-> fn, arg |-> arg])

\* plugins[0] registering each class with a call of its own
PluginHookPerClass(fn) ==
  /\ invocations < MaxInvocations
  /\ Len(config.plugins) = 1
  /\ invocations' = invocations + 1
  /\ registered' =
       addUtilities(addUtilities(addUtilities(registered,
         fn, <<newUtilities[1]>>), fn, <<newUtilities[2]>>), fn, <<newUtilities[3]>>)
  /\ UNCHANGED <<config, loads>>

\* plugins[0] also writing the 150ms of .transition-fast into the duration scale
PluginHookExtendingScale(fn) ==
  /\ invocations < MaxInvocations
  /\ Len(config.plugins) = 1
  /\ invocations' = invocations + 1
  /\ registered' = addUtilities(registered, fn, newUtilities)
  /\ config' = [config EXCEPT !.theme.extend.transitionDuration =
                  <<KV(<<"1", "5", "0">>, <<"1", "5", "0", "m", "s">>)>> \o transitionDuration]
  /\ UNCHANGED loads

\* plugins[0] registering the utilities on its first invocation only
PluginHookRegisteringOnce(fn) ==
  /\ invocations < MaxInvocations
  /\ Len(config.plugins) = 1
  /\ invocations' = invocations + 1
  /\ registered' = addUtilities(registered, fn, IF invocations = 0 THEN newUtilities ELSE <<>>)
  /\ UNCHANGED <<config, loads>>


\* plugins[0] (lines 201-214): build newUtilities, hand it to addUtilities.
PluginHook(fn) ==
  /\ invocations < MaxInvocations
  /\ Len(config.plugins) = 1
  /\ invocations' = invocations + 1
  /\ registered' = addUtilities(registered, fn, newUtilities)
  /\ UNCHANGED <<config, loads>>

Next ==
  \/ Load
  \/ \E fn \in Registrars : PluginHook(fn)

Spec == Init /\ [][Next]_vars

-----------------------------------------------------------------------------
\* Reading the values: what a consumer of the table does with the strings.

DigitChars == <<"0", "1", "2", "3", "4", "5", "6", "7", "8", "9">>
Digits == {DigitChars[i] : i \in 1..Len(DigitChars)}
HexDigits == Digits \cup {"a", "b", "c", "d", "e", "f", "A", "B", "C", "D", "E", "F"}

DigitVal(c) == (CHOOSE i \in 1..Len(DigitChars) : DigitChars[i] = c) - 1

IsDigits(s) == Len(s) > 0 /\ \A i \in 1..Len(s) : s[i] \in Digits

\* The integer a string of digits denotes.
RECURSIVE ParseInt(_)
ParseInt(s) ==
  IF s = <<>> THEN 0
  ELSE ParseInt(SubSeq(s, 1, Len(s) - 1)) * 10 + DigitVal(s[Len(s)])

\* The first index of character c in s, 0 when absent.
IndexOf(s, c) ==
  IF \E i \in 1..Len(s) : s[i] = c
  THEN CHOOSE i \in 1..Len(s) : s[i] = c /\ \A j \in 1..(i - 1) : s[j] # c
  ELSE 0

Count(s, c) == Cardinality({i \in 1..Len(s) : s[i] = c})

\* A decimal numeral: digits with at most one point, ending in a digit.
IsDecimal(s) ==
  /\ Len(s) > 0
  /\ \A i \in 1..Len(s) : s[i] \in Digits \cup {"."}
  /\ Count(s, ".") <= 1
  /\ s[Len(s)] \in Digits

IntPart(s) == IF IndexOf(s, ".") = 0 THEN s ELSE SubSeq(s, 1, IndexOf(s, ".") - 1)
FracPart(s) == IF IndexOf(s, ".") = 0 THEN <<>> ELSE SubSeq(s, IndexOf(s, ".") + 1, Len(s))

\* A decimal numeral d denotes Numer(d) / 10^Scale(d).
Numer(d) == ParseInt(IntPart(d) \o FracPart(d))
Scale(d) == Len(FracPart(d))

DecLess(a, b) == Numer(a) * 10^Scale(b) < Numer(b) * 10^Scale(a)
DecPositive(d) == Numer(d) > 0

\* A dimension is a numeral followed by a unit: '0.5rem', '250ms'.
NumberLen(s) ==
  IF \E i \in 1..Len(s) : s[i] \notin Digits \cup {"."}
  THEN (CHOOSE i \in 1..Len(s) :
          s[i] \notin Digits \cup {"."} /\ \A j \in 1..(i - 1) : s[j] \in Digits \cup {"."}) - 1
  ELSE Len(s)
NumberOf(s) == SubSeq(s, 1, NumberLen(s))
UnitOf(s) == SubSeq(s, NumberLen(s) + 1, Len(s))

\* The pieces of s between occurrences of the separator character.
RECURSIVE Split(_, _)
Split(s, sep) ==
  IF IndexOf(s, sep) = 0 THEN <<s>>
  ELSE <<SubSeq(s, 1, IndexOf(s, sep) - 1)>> \o Split(SubSeq(s, IndexOf(s, sep) + 1, Len(s)), sep)

RECURSIVE Trim(_)
Trim(s) ==
  IF s = <<>> THEN s
  ELSE IF s[1] = " " THEN Trim(Tail(s))
  ELSE IF s[Len(s)] = " " THEN Trim(SubSeq(s, 1, Len(s) - 1))
  ELSE s

StartsWith(s, p) == Len(s) >= Len(p) /\ SubSeq(s, 1, Len(p)) = p

\* Object access.
Keys(obj) == {obj[i].key : i \in 1..Len(obj)}
Has(obj, k) == \E i \in 1..Len(obj) : obj[i].key = k
Get(obj, k) == obj[CHOOSE i \in 1..Len(obj) : obj[i].key = k].value
Values(obj) == {obj[i].value : i \in 1..Len(obj)}

\* A glob pattern as the scanner reads it: a leading './' is dropped, a brace
\* group stands for each of its alternatives, '**/' spans any number of
\* directories and '*' any characters of one path segment.
StripDotSlash(p) == IF StartsWith(p, <<".", "/">>) THEN SubSeq(p, 3, Len(p)) ELSE p

RECURSIVE ExpandBraces(_)
ExpandBraces(p) ==
  LET o == IndexOf(p, "{")
      c == IndexOf(p, "}")
  IN  IF o = 0 \/ c < o THEN {p}
      ELSE LET alts == Split(SubSeq(p, o + 1, c - 1), ",")
           IN  UNION { ExpandBraces(SubSeq(p, 1, o - 1) \o alts[i] \o SubSeq(p, c + 1, Len(p))) :
                         i \in 1..Len(alts) }

RECURSIVE Glob(_, _)
Glob(p, f) ==
  IF p = <<>> THEN f = <<>>
  ELSE IF StartsWith(p, <<"*", "*", "/">>)
  THEN \/ Glob(SubSeq(p, 4, Len(p)), f)
       \/ IndexOf(f, "/") > 0 /\ Glob(p, SubSeq(f, IndexOf(f, "/") + 1, Len(f)))
  ELSE IF p[1] = "*"
  THEN \/ Glob(Tail(p), f)
       \/ f # <<>> /\ f[1] # "/" /\ Glob(p, Tail(f))
  ELSE f # <<>> /\ f[1] = p[1] /\ Glob(Tail(p), Tail(f))

Matches(pattern, file) == \E q \in ExpandBraces(StripDotSlash(pattern)) : Glob(q, file)

\* A color value: '#' with 3, 4, 6 or 8 hexadecimal digits, or rgba(r, g, b, a)
\* with r, g, b integers up to 255 and a a numeral up to 1.
IsHexColor(s) ==
  /\ Len(s) \in {4, 5, 7, 9}
  /\ s[1] = "#"
  /\ \A i \in 2..Len(s) : s[i] \in HexDigits

IsRgbaColor(s) ==
  /\ StartsWith(s, <<"r", "g", "b", "a", "(">>)
  /\ s[Len(s)] = ")"
  /\ LET args == Split(SubSeq(s, 6, Len(s) - 1), ",") IN
     /\ Len(args) = 4
     /\ \A i \in 1..3 : IsDigits(Trim(args[i])) /\ ParseInt(Trim(args[i])) <= 255
     /\ IsDecimal(Trim(args[4]))
     /\ ~DecLess(<<"1">>, Trim(args[4]))

IsColor(s) == IsHexColor(s) \/ IsRgbaColor(s)

\* A duration: a numeral followed by ms or s.
IsDuration(t) == IsDecimal(NumberOf(t)) /\ UnitOf(t) \in {<<"m", "s">>, <<"s">>}

\* The durations among the space-separated parts of a transition value.
DurationsIn(v) == SelectSeq(Split(v, " "), IsDuration)

-----------------------------------------------------------------------------
\* Properties of the token table and of the plugin hook.

Theme == config.theme.extend

\* C3: in theme.extend.spacing the keys are numerals, the values are lengths
\* of one unit, and for any two keys k1 < k2 (compared as numbers) the length
\* mapped to k1 is strictly smaller than the length mapped to k2.
C3_SpacingStrictlyIncreasing ==
  LET sp == Theme.spacing IN
  /\ \A i \in 1..Len(sp) : IsDigits(sp[i].key) /\ IsDecimal(NumberOf(sp[i].value))
  /\ \A i, j \in 1..Len(sp) : UnitOf(sp[i].value) = UnitOf(sp[j].value)
  /\ \A i, j \in 1..Len(sp) :
       ParseInt(sp[i].key) < ParseInt(sp[j].key)
         => DecLess(NumberOf(sp[i].value), NumberOf(sp[j].value))

\* A loaded table in which the key '2' precedes the key '12' as a number (not as
\* a string) and their lengths '1rem' and '6rem' are in that order.
C3_Witness ==
  LET sp == Theme.spacing IN
  /\ loads >= 1
  /\ Has(sp, <<"2">>) /\ Has(sp, <<"1", "2">>)
  /\ ParseInt(<<"2">>) < ParseInt(<<"1", "2">>)
  /\ Get(sp, <<"2">>) = <<"1", "r", "e", "m">> /\ Get(sp, <<"1", "2">>) = <<"6", "r", "e", "m">>
  /\ DecLess(NumberOf(Get(sp, <<"2">>)), NumberOf(Get(sp, <<"1", "2">>)))

LineHeightKey == <<"l", "i", "n", "e", "H", "e", "i", "g", "h", "t">>

LengthUnits ==
  { <<"r", "e", "m">>, <<"e", "m">>, <<"p", "x">>, <<"%">>, <<"p", "t">>, <<"p", "c">>, <<"c", "h">>, <<"e", "x">>, <<"v", "h">>, <<"v", "w">>,
    <<"v", "m", "i", "n">>, <<"v", "m", "a", "x">>, <<"c", "m">>, <<"m", "m">>, <<"i", "n">> }

\* A positive length: a positive numeral followed by a length unit.
IsPositiveLength(s) ==
  /\ IsDecimal(NumberOf(s))
  /\ DecPositive(NumberOf(s))
  /\ UnitOf(s) \in LengthUnits

\* A positive unitless ratio: a positive numeral and nothing else.
IsPositiveRatio(s) == IsDecimal(s) /\ DecPositive(s)

\* C4: every entry of theme.extend.fontSize is a pair [size, {lineHeight}]
\* whose lineHeight is present and is a positive unitless ratio and whose size
\* is a positive length ending in a recognized unit.
C4_FontSizeEntriesWellFormed ==
  \A i \in 1..Len(Theme.fontSize) :
    LET e == Theme.fontSize[i].value IN
    /\ Len(e) = 2
    /\ IsPositiveLength(e[1])
    /\ Keys(e[2]) = {LineHeightKey}
    /\ IsPositiveRatio(Get(e[2], LineHeightKey))

\* The entry '3xl' is ['1.875rem', {lineHeight: '1.25'}]: a size with a
\* fraction and a unit, a ratio with a fraction and no unit.
C4_Witness ==
  /\ loads >= 1
  /\ Has(Theme.fontSize, <<"3", "x", "l">>)
  /\ LET e == Get(Theme.fontSize, <<"3", "x", "l">>) IN
       /\ NumberOf(e[1]) = <<"1", ".", "8", "7", "5">> /\ UnitOf(e[1]) = <<"r", "e", "m">>
       /\ Get(e[2], LineHeightKey) = <<"1", ".", "2", "5">>
       /\ UnitOf(Get(e[2], LineHeightKey)) = <<>>

GenericFamilies ==
  { <<"s", "e", "r", "i", "f">>, <<"s", "a", "n", "s", "-", "s", "e", "r", "i", "f">>, <<"m", "o", "n", "o", "s", "p", "a", "c", "e">>, <<"c", "u", "r", "s", "i", "v", "e">>, <<"f", "a", "n", "t", "a", "s", "y">>, <<"s", "y", "s", "t", "e", "m", "-", "u", "i">>,
    <<"u", "i", "-", "s", "e", "r", "i", "f">>, <<"u", "i", "-", "s", "a", "n", "s", "-", "s", "e", "r", "i", "f">>, <<"u", "i", "-", "m", "o", "n", "o", "s", "p", "a", "c", "e">>, <<"u", "i", "-", "r", "o", "u", "n", "d", "e", "d">>, <<"m", "a", "t", "h">>,
    <<"e", "m", "o", "j", "i">>, <<"f", "a", "n", "g", "s", "o", "n", "g">> }

FontRoles == { <<"h", "e", "a", "d", "i", "n", "g">>, <<"b", "o", "d", "y">>, <<"c", "a", "p", "t", "i", "o", "n">>, <<"m", "o", "n", "o">> }

\* C6: the font family lists are those of heading, body, caption and mono;
\* each is non-empty, begins with a named (non-generic) font and ends with a
\* generic family name.
C6_FontFamilyLists ==
  /\ Keys(Theme.fontFamily) = FontRoles
  /\ \A i \in 1..Len(Theme.fontFamily) :
       LET l == Theme.fontFamily[i].value IN
       /\ Len(l) >= 1
       /\ Len(l[1]) > 0 /\ l[1] \notin GenericFamilies
       /\ l[Len(l)] \in GenericFamilies

\* The mono list is ['JetBrains Mono', 'monospace']: its generic family is not
\* the sans-serif of the other three.
C6_Witness ==
  /\ loads >= 1
  /\ Get(Theme.fontFamily, <<"m", "o", "n", "o">>) = << <<"J", "e", "t", "B", "r", "a", "i", "n", "s", " ", "M", "o", "n", "o">>, <<"m", "o", "n", "o", "s", "p", "a", "c", "e">> >>
  /\ Get(Theme.fontFamily, <<"b", "o", "d", "y">>)[2] = <<"s", "a", "n", "s", "-", "s", "e", "r", "i", "f">>

LayerOrder ==
  << <<"b", "a", "s", "e">>, <<"c", "a", "r", "d">>, <<"d", "r", "o", "p", "d", "o", "w", "n">>, <<"n", "a", "v", "i", "g", "a", "t", "i", "o", "n">>, <<"m", "o", "d", "a", "l">>, <<"t", "o", "a", "s", "t">> >>

\* C10: the z-index layers are declared in the order base, card, dropdown,
\* navigation, modal, toast, their values are integers, and each layer's value
\* is strictly smaller than the next one's, so no two layers share a value.
C10_ZIndexStrictlyOrdered ==
  LET z == Theme.zIndex IN
  /\ [i \in 1..Len(z) |-> z[i].key] = LayerOrder
  /\ \A i \in 1..Len(z) : IsDigits(z[i].value)
  /\ \A i \in 1..(Len(z) - 1) : ParseInt(z[i].value) < ParseInt(z[i + 1].value)
  /\ \A i, j \in 1..Len(z) : i # j => ParseInt(z[i].value) # ParseInt(z[j].value)

\* dropdown '50' lies below navigation '100' as an integer, though not as a
\* string.
C10_Witness ==
  LET z == Theme.zIndex IN
  /\ loads >= 1
  /\ Get(z, <<"d", "r", "o", "p", "d", "o", "w", "n">>) = <<"5", "0">> /\ Get(z, <<"n", "a", "v", "i", "g", "a", "t", "i", "o", "n">>) = <<"1", "0", "0">>
  /\ ParseInt(Get(z, <<"d", "r", "o", "p", "d", "o", "w", "n">>)) < ParseInt(Get(z, <<"n", "a", "v", "i", "g", "a", "t", "i", "o", "n">>))

TransitionKey == <<"t", "r", "a", "n", "s", "i", "t", "i", "o", "n">>

ClassNames == { <<"t", "r", "a", "n", "s", "i", "t", "i", "o", "n", "-", "b", "a", "s", "e">>, <<"t", "r", "a", "n", "s", "i", "t", "i", "o", "n", "-", "f", "a", "s", "t">>, <<"t", "r", "a", "n", "s", "i", "t", "i", "o", "n", "-", "s", "l", "o", "w">> }

\* The selector of a class: a dot and the class name.
Selector(name) == <<".">> \o name

DurationScale == Values(Theme.transitionDuration)

\* The classes of a registered mapping have one declaration each, named
\* transition, holding one duration.
OneTransitionEach(arg) ==
  /\ Keys(arg) = {Selector(n) : n \in ClassNames}
  /\ \A i \in 1..Len(arg) :
       /\ Len(arg[i].value) = 1
       /\ arg[i].value[1].key = TransitionKey
       /\ Len(DurationsIn(arg[i].value[1].value)) = 1

DurationOf(arg, name) == DurationsIn(Get(arg, Selector(name))[1].value)[1]

\* C1 as stated: each registered class has exactly one declaration, named
\* transition, and the duration in its value is one of the values of
\* theme.extend.transitionDuration.
C1_AllDurationsInScale ==
  \A c \in 1..Len(registered) :
    /\ OneTransitionEach(registered[c].arg)
    /\ \A n \in ClassNames : DurationOf(registered[c].arg, n) \in DurationScale

\* C1 as the code has it: each registered class has exactly one declaration,
\* named transition, holding one duration; the durations of .transition-base
\* and .transition-slow are values of theme.extend.transitionDuration, and the
\* 150ms of .transition-fast is not.
C1_BaseAndSlowInScale ==
  \A c \in 1..Len(registered) :
    /\ OneTransitionEach(registered[c].arg)
    /\ DurationOf(registered[c].arg, <<"t", "r", "a", "n", "s", "i", "t", "i", "o", "n", "-", "b", "a", "s", "e">>) \in DurationScale
    /\ DurationOf(registered[c].arg, <<"t", "r", "a", "n", "s", "i", "t", "i", "o", "n", "-", "s", "l", "o", "w">>) \in DurationScale
    /\ DurationOf(registered[c].arg, <<"t", "r", "a", "n", "s", "i", "t", "i", "o", "n", "-", "f", "a", "s", "t">>) = <<"1", "5", "0", "m", "s">>
    /\ <<"1", "5", "0", "m", "s">> \notin DurationScale

\* The hook has run, and the registered durations are 250ms, 150ms and 350ms
\* against a scale of 250ms and 350ms.
C1_Witness ==
  /\ Len(registered) >= 1
  /\ DurationScale = { <<"2", "5", "0", "m", "s">>, <<"3", "5", "0", "m", "s">> }
  /\ DurationOf(registered[1].arg, <<"t", "r", "a", "n", "s", "i", "t", "i", "o", "n", "-", "b", "a", "s", "e">>) = <<"2", "5", "0", "m", "s">>
  /\ DurationOf(registered[1].arg, <<"t", "r", "a", "n", "s", "i", "t", "i", "o", "n", "-", "f", "a", "s", "t">>) = <<"1", "5", "0", "m", "s">>
  /\ DurationOf(registered[1].arg, <<"t", "r", "a", "n", "s", "i", "t", "i", "o", "n", "-", "s", "l", "o", "w">>) = <<"3", "5", "0", "m", "s">>

ShadeKeys ==
  { <<"D", "E", "F", "A", "U", "L", "T">>, <<"5", "0">>, <<"1", "0", "0">>, <<"2", "0", "0">>, <<"3", "0", "0">>, <<"4", "0", "0">>, <<"5", "0", "0">>, <<"6", "0", "0">>, <<"7", "0", "0">>,
    <<"8", "0", "0">>, <<"9", "0", "0">>, <<"f", "o", "r", "e", "g", "r", "o", "u", "n", "d">> }

\* The color families: the entries of colors whose value is a nested mapping.
Families == {i \in 1..Len(Theme.colors) : Theme.colors[i].value.type = "object"}
Family(name) == Get(Theme.colors, name).entries

PaletteFamilies ==
  { <<"p", "r", "i", "m", "a", "r", "y">>, <<"s", "e", "c", "o", "n", "d", "a", "r", "y">>, <<"a", "c", "c", "e", "n", "t">>, <<"s", "u", "c", "c", "e", "s", "s">>, <<"w", "a", "r", "n", "i", "n", "g">>, <<"e", "r", "r", "o", "r">> }

AllShadesAreColors ==
  \A i \in Families :
    \A j \in 1..Len(Theme.colors[i].value.entries) :
      IsColor(Theme.colors[i].value.entries[j].value)

\* C2 as stated: every color family has exactly the shade keys DEFAULT, 50,
\* 100, ..., 900, foreground, and every shade value is a valid color.
C2_EveryFamilyFullScale ==
  /\ \A i \in Families : Keys(Theme.colors[i].value.entries) = ShadeKeys
  /\ AllShadesAreColors

\* C2 as the code has it: the families are primary, secondary, accent,
\* success, warning, error, background, surface and border; the first six have
\* exactly the shade keys DEFAULT, 50, 100, ..., 900, foreground; background
\* has DEFAULT and foreground, surface has DEFAULT, foreground, hover and
\* active, border has DEFAULT, light and strong; every shade value of every
\* family is a valid color.
C2_PaletteFamiliesFullScale ==
  /\ {Theme.colors[i].key : i \in Families} =
       PaletteFamilies \cup { <<"b", "a", "c", "k", "g", "r", "o", "u", "n", "d">>, <<"s", "u", "r", "f", "a", "c", "e">>, <<"b", "o", "r", "d", "e", "r">> }
  /\ \A n \in PaletteFamilies : Keys(Family(n)) = ShadeKeys
  /\ Keys(Family(<<"b", "a", "c", "k", "g", "r", "o", "u", "n", "d">>)) = { <<"D", "E", "F", "A", "U", "L", "T">>, <<"f", "o", "r", "e", "g", "r", "o", "u", "n", "d">> }
  /\ Keys(Family(<<"s", "u", "r", "f", "a", "c", "e">>)) = { <<"D", "E", "F", "A", "U", "L", "T">>, <<"f", "o", "r", "e", "g", "r", "o", "u", "n", "d">>, <<"h", "o", "v", "e", "r">>, <<"a", "c", "t", "i", "v", "e">> }
  /\ Keys(Family(<<"b", "o", "r", "d", "e", "r">>)) = { <<"D", "E", "F", "A", "U", "L", "T">>, <<"l", "i", "g", "h", "t">>, <<"s", "t", "r", "o", "n", "g">> }
  /\ AllShadesAreColors

\* The loaded table holds a family with the full scale (error), a family
\* without it (surface), a hexadecimal shade and an rgba shade.
C2_Witness ==
  /\ loads >= 1
  /\ Keys(Family(<<"e", "r", "r", "o", "r">>)) = ShadeKeys
  /\ <<"h", "o", "v", "e", "r">> \in Keys(Family(<<"s", "u", "r", "f", "a", "c", "e">>)) /\ <<"5", "0", "0">> \notin Keys(Family(<<"s", "u", "r", "f", "a", "c", "e">>))
  /\ IsHexColor(Get(Family(<<"e", "r", "r", "o", "r">>), <<"9", "0", "0">>))
  /\ IsRgbaColor(Get(Family(<<"b", "o", "r", "d", "e", "r">>), <<"D", "E", "F", "A", "U", "L", "T">>))

\* A CSS declaration object: property names mapped to values, none empty.
IsDeclarationObject(d) ==
  /\ Len(d) >= 1
  /\ \A i \in 1..Len(d) : Len(d[i].key) > 0 /\ Len(d[i].value) > 0

\* C5: a step that invokes the plugin hook is one invocation, and it adds
\* exactly one call to the log of the registration function it was given; the
\* argument of that call maps exactly the selectors of transition-base,
\* transition-fast and transition-slow to a CSS declaration object each.
C5_OneRegistrationPerInvocation ==
  [][ invocations' # invocations =>
        /\ invocations' = invocations + 1
        /\ Len(registered') = Len(registered) + 1
        /\ SubSeq(registered', 1, Len(registered)) = registered
        /\ LET call == registered'[Len(registered')] IN
           /\ call.fn \in Registrars
           /\ Len(call.arg) = Cardinality(ClassNames)
           /\ Keys(call.arg) = {Selector(n) : n \in ClassNames}
           /\ \A i \in 1..Len(call.arg) : IsDeclarationObject(call.arg[i].value) ]_vars

\* Two invocations with different registration functions: one call each.
C5_Witness ==
  /\ invocations = 2
  /\ Len(registered) = 2
  /\ registered[1].fn # registered[2].fn
  /\ Keys(registered[2].arg) = {Selector(n) : n \in ClassNames}

IndexHtml == <<"i", "n", "d", "e", "x", ".", "h", "t", "m", "l">>

\* C7: every glob pattern of content is a non-empty string, and the root file
\* index.html is matched by at least one of them.
C7_ContentMatchesIndexHtml ==
  /\ \A i \in 1..Len(config.content) : Len(config.content[i]) > 0
  /\ \E i \in 1..Len(config.content) : Matches(config.content[i], IndexHtml)

\* './index.html' and './*.html' match index.html; './pages/**/*.{html,js}'
\* does not, though it matches pages/a/b.js.
C7_Witness ==
  /\ loads >= 1
  /\ Len(config.content) = 4
  /\ Matches(config.content[3], IndexHtml) /\ Matches(config.content[4], IndexHtml)
  /\ ~Matches(config.content[1], IndexHtml)
  /\ Matches(config.content[1], <<"p", "a", "g", "e", "s", "/", "a", "/", "b", ".", "j", "s">>)

\* C8: evaluating the file again yields the same token table, and running
\* the plugin hook again registers the same utility mapping as the run
\* before it.
C8_ReloadAndRerunIdentical ==
  [][ /\ loads' # loads => config' = config
      /\ (Len(registered) >= 1 /\ Len(registered') > Len(registered)) =>
           \A i \in (Len(registered) + 1)..Len(registered') :
             registered'[i].arg = registered[Len(registered)].arg ]_vars

\* The file was evaluated twice and the hook ran twice, with the same
\* table and the same mapping both times.
C8_Witness ==
  /\ loads = 2
  /\ Len(registered) = 2
  /\ registered[1].arg = registered[2].arg
  /\ Len(registered[1].arg) = Cardinality(ClassNames)

\* C9: no step changes content, darkMode or any entry of theme.extend, and
\* a step that invokes the plugin hook changes nothing but the log of the
\* registration function, which it only extends.
C9_TableNeverMutated ==
  [][ /\ config'.content = config.content
      /\ config'.darkMode = config.darkMode
      /\ \A k \in DOMAIN config.theme.extend :
           config'.theme.extend[k] = config.theme.extend[k]
      /\ DOMAIN config'.theme.extend = DOMAIN config.theme.extend
      /\ invocations' # invocations =>
           /\ loads' = loads
           /\ Len(registered') > Len(registered)
           /\ SubSeq(registered', 1, Len(registered)) = registered ]_vars

\* After three invocations of the hook the table still has its two declared
\* durations and its four patterns.
C9_Witness ==
  /\ invocations = 3
  /\ Len(registered) = 3
  /\ Keys(config.theme.extend.transitionDuration) = { <<"2", "5", "0">>, <<"3", "5", "0">> }
  /\ Len(config.content) = 4

====
